---- MODULE Spec2Model ----
(***************************************************************************)
(* DataVista sales dashboard (sales_app.py).                               *)
(*                                                                         *)
(* The script is a Streamlit page: it is executed top to bottom once when  *)
(* a session opens and once more after every widget change.  One action of *)
(* this module is one such execution.  An exception raised by a statement  *)
(* ends the execution at that statement; the session stays open.           *)
(*                                                                         *)
(* Units.  Total is carried in thousandths of a currency unit (mills), so  *)
(* that rounding to 2 decimals is a real conversion; every value rounded   *)
(* to 2 decimals is carried in hundredths (cents).  Rating is carried in   *)
(* tenths, which is also the unit of avg_rating.  Arithmetic is exact      *)
(* decimal arithmetic; ties round to even, as round() and Series.round do. *)
(* Row values are carried for the columns some later statement reads.      *)
(***************************************************************************)
EXTENDS Integers, Sequences, FiniteSets, TLC

VARIABLES
    source,               \* sales_data.xlsx as found on disk
    cache,                \* st.cache_data entry of load_data: <<>> or <<result>>
    df,                   \* line 70
    st_error,             \* message given to st.error by load_data, "" if none
    date_range,           \* line 74, value of the date_input widget
    widgets,              \* session state of the three multiselect widgets
    city_filter,          \* line 81
    customer_type_filter, \* line 86
    gender_filter,        \* line 91
    filtered_df,          \* lines 77/79 and 97
    filtered_kpi_data,    \* line 145
    status,               \* "new" | "done" | "raised"
    exception             \* <<>> or <<type, line>> of the exception that ended the run

vars == << source, cache, df, st_error, date_range, widgets, city_filter,
           customer_type_filter, gender_filter, filtered_df, filtered_kpi_data,
           status, exception >>

----------------------------------------------------------------------------
(* Bounds and input data *)

MaxRows == 3

nrows == 1000

avg_customer_lifespan == 5

required_columns ==
    << "Invoice ID", "Branch", "City", "Customer_type", "Gender", "Product line",
       "Unit price", "Quantity", "Tax 5%", "Total", "Date", "Time", "Payment",
       "cogs", "gross margin percentage", "gross income", "Rating" >>

Range(s) == { s[i] : i \in 1..Len(s) }

Row(inv, city, ctype, gender, product, total, date, time, rating) ==
    ("Invoice ID" :> inv) @@ ("City" :> city) @@ ("Customer_type" :> ctype) @@
    ("Gender" :> gender) @@ ("Product line" :> product) @@ ("Total" :> total) @@
    ("Date" :> date) @@ ("Time" :> time) @@ ("Rating" :> rating)

R1 == Row("I1", "X", "Member", "Male",   "Health and beauty",      10000, <<2024, 1, 1>>, <<9, 0, 0>>,   70)
R2 == Row("I2", "Y", "Normal", "Female", "Electronic accessories", 20000, <<2024, 1, 2>>, <<14, 0, 0>>,  85)
R3 == Row("I2", "Y", "Normal", "Female", "Electronic accessories", 30000, <<2024, 1, 2>>, <<14, 0, 0>>,  92)
R4 == Row("I3", "X", "Normal", "Male",   "Health and beauty",      10005, <<2024, 2, 1>>, <<9, 30, 0>>,  46)
R5 == Row("I4", "Y", "Member", "Female", "Sports and travel",       5005, <<2024, 2, 1>>, <<20, 15, 0>>, 63)

Catalogue == { R1, R2, R4, R5 }

RECURSIVE SeqsUpTo(_, _)
SeqsUpTo(S, n) ==
    IF n = 0 THEN { <<>> }
    ELSE LET shorter == SeqsUpTo(S, n - 1)
         IN  shorter \cup { Append(s, x) : s \in { t \in shorter : Len(t) = n - 1 }, x \in S }

\* the three-record scenario of the specification's section 8
LiteralRows == << R1, R2, R3 >>

\* invoice ids [A, A, B, C, C, C]
FixtureRows ==
    << [R1 EXCEPT !["Invoice ID"] = "A"], [R4 EXCEPT !["Invoice ID"] = "A"],
       [R2 EXCEPT !["Invoice ID"] = "B"], [R5 EXCEPT !["Invoice ID"] = "C"],
       [R3 EXCEPT !["Invoice ID"] = "C"], [R5 EXCEPT !["Invoice ID"] = "C"] >>

Workbook(rows) == [ exists |-> TRUE, columns |-> Range(required_columns), rows |-> rows ]

GoodSources == { Workbook(rows) : rows \in SeqsUpTo(Catalogue, MaxRows) \cup { LiteralRows, FixtureRows } }

MissingFile   == [ exists |-> FALSE, columns |-> {}, rows |-> <<>> ]
MissingColumn == [ Workbook(<<R1, R2>>) EXCEPT !.columns = @ \ { "Rating" } ]
MalformedTime == Workbook(<< R1, [R2 EXCEPT !.Time = <<25, 0, 0>>] >>)
MalformedDate == Workbook(<< [R1 EXCEPT !.Date = <<2024, 13, 1>>], R2 >>)

BadSources == { MissingFile, MissingColumn, MalformedTime, MalformedDate }

Sources == GoodSources \cup BadSources

Dates == { <<2024, 1, 1>>, <<2024, 1, 2>>, <<2024, 2, 1>> }

----------------------------------------------------------------------------
(* Arithmetic *)

\* round(num / den) to an integer, ties to even; num >= 0, den > 0
RoundHalfEven(num, den) ==
    LET q == num \div den
        r == num % den
    IN  IF 2 * r < den THEN q
        ELSE IF 2 * r > den THEN q + 1
        ELSE IF q % 2 = 0 THEN q ELSE q + 1

\* round(x, 2) of an amount x given in mills; the result is in cents
Round2Mills(x) == RoundHalfEven(x, 10)

\* exact quotients a / b are pairs <<numerator, denominator>>
Quot(a, b) == << a, b >>
Times(p, q) == << p[1] * q[1], p[2] * q[2] >>
Scale(p, k) == << p[1] * k, p[2] >>
RoundQuot(p) == RoundHalfEven(p[1], p[2])

DateLE(a, b) ==
    \/ a[1] < b[1]
    \/ a[1] = b[1] /\ a[2] < b[2]
    \/ a[1] = b[1] /\ a[2] = b[2] /\ a[3] <= b[3]

----------------------------------------------------------------------------
(* Data frames: [columns |-> set of column names, rows |-> sequence of rows] *)

\* pd.DataFrame()
EmptyFrame == [ columns |-> {}, rows |-> <<>> ]

\* placeholder for a script variable the run did not assign
Unbound == <<>>

Take(rows, n) == IF Len(rows) <= n THEN rows ELSE SubSeq(rows, 1, n)

ValidTime(t) == t[1] \in 0..23 /\ t[2] \in 0..59 /\ t[3] \in 0..59

ValidDate(d) == d[2] \in 1..12 /\ d[3] \in 1..31

\* the first required column the workbook lacks, <<>> if none
FirstMissing(columns) ==
    LET missing == { i \in 1..Len(required_columns) : required_columns[i] \notin columns }
    IN  IF missing = {} THEN <<>>
        ELSE << required_columns[CHOOSE i \in missing : \A j \in missing : i <= j] >>

Derive(row) ==
    row @@ ("hour" :> row.Time[1])
        @@ ("date" :> << row.Date[1], row.Date[2], row.Date[3] >>)
        @@ ("month" :> << row.Date[1], row.Date[2] >>)

load_data(src) ==
    IF ~src.exists
    THEN [ frame |-> EmptyFrame, error |-> "Sales data file not found." ]
    ELSE LET rows == Take(src.rows, nrows)
         IN  IF FirstMissing(src.columns) # <<>>
             THEN [ frame |-> EmptyFrame, error |-> "Column not found in the Excel file." ]
             ELSE IF \E i \in 1..Len(rows) : ~ValidTime(rows[i].Time) \/ ~ValidDate(rows[i].Date)
             THEN [ frame |-> EmptyFrame, error |-> "Error reading the Excel file" ]
             ELSE [ frame |-> [ columns |-> Range(required_columns) \cup { "hour", "date", "week", "month" },
                                rows    |-> [ i \in 1..Len(rows) |-> Derive(rows[i]) ] ],
                    error |-> "" ]

\* frame[mask]: the rows at the positions where mask is TRUE, in order
RECURSIVE BoolIndex(_, _)
BoolIndex(rows, mask) ==
    IF rows = <<>> THEN <<>>
    ELSE LET rest == BoolIndex(Tail(rows), Tail(mask))
         IN  IF Head(mask) THEN << Head(rows) >> \o rest ELSE rest

\* Series.unique(): distinct values in order of first appearance
RECURSIVE Unique(_)
Unique(values) ==
    IF values = <<>> THEN <<>>
    ELSE LET init == Unique(SubSeq(values, 1, Len(values) - 1))
             last == values[Len(values)]
         IN  IF last \in Range(init) THEN init ELSE Append(init, last)

ColumnOf(rows, col) == [ i \in 1..Len(rows) |-> rows[i][col] ]

\* Series.duplicated(), keep='first': one forward scan with the set of values seen
RECURSIVE DuplicatedScan(_, _)
DuplicatedScan(values, seen) ==
    IF values = <<>> THEN <<>>
    ELSE << Head(values) \in seen >> \o DuplicatedScan(Tail(values), seen \cup { Head(values) })

\* keep=False: every occurrence of a repeated value is marked
Duplicated_KeepNone(values) ==
    [ i \in 1..Len(values) |-> \E j \in 1..Len(values) : j # i /\ values[j] = values[i] ]

\* a value is compared with the one just before it only
Duplicated_Adjacent(values) ==
    [ i \in 1..Len(values) |-> i > 1 /\ values[i] = values[i - 1] ]

Duplicated(values) == DuplicatedScan(values, {})

RECURSIVE SumOf(_)
SumOf(values) == IF values = <<>> THEN 0 ELSE Head(values) + SumOf(Tail(values))

CountTrue(mask) == Cardinality({ i \in 1..Len(mask) : mask[i] })

----------------------------------------------------------------------------
(* calculate_kpis *)

total_sales(rows) == Round2Mills(SumOf(ColumnOf(rows, "Total")))

\* len(df.columns) in place of len(df)
total_transactions_Columns(frame) == Cardinality(frame.columns)

total_transactions(frame) == Len(frame.rows)

avg_sale_per_transaction(ts, tt) == IF tt > 0 THEN RoundHalfEven(ts, tt) ELSE 0

\* <<>> stands for NaN, the mean of no values
avg_rating(rows) ==
    IF rows = <<>> THEN <<>>
    ELSE << RoundHalfEven(SumOf(ColumnOf(rows, "Rating")), Len(rows)) >>

total_customers(rows) == Len(Unique(ColumnOf(rows, "Invoice ID")))

\* the sum is taken over the whole frame for every key
GroupBySum_Ungrouped(rows, col) ==
    [ k \in Range(ColumnOf(rows, col)) |-> Round2Mills(SumOf(ColumnOf(rows, "Total"))) ]

\* df.groupby(col)["Total"].sum().round(2).to_dict()
GroupBySum(rows, col) ==
    [ k \in Range(ColumnOf(rows, col)) |->
        Round2Mills(SumOf(ColumnOf(SelectSeq(rows, LAMBDA r : r[col] = k), "Total"))) ]

repeat_customers(rows) == CountTrue(Duplicated(ColumnOf(rows, "Invoice ID")))

\* in hundredths of a percent
repeat_customer_rate(rc, tc) == IF tc > 0 THEN RoundQuot(Scale(Scale(Quot(rc, tc), 100), 100)) ELSE 0

avg_purchase_value(ts, tc) == IF tc > 0 THEN Quot(ts, tc) ELSE Quot(0, 1)

purchase_frequency(tt, tc) == IF tc > 0 THEN Quot(tt, tc) ELSE Quot(0, 1)

\* purchase_frequency left out of the product
clv_NoFrequency(ts, tt, tc) == RoundQuot(Scale(avg_purchase_value(ts, tc), avg_customer_lifespan))

clv(ts, tt, tc) ==
    LET avg_customer_value == Times(avg_purchase_value(ts, tc), purchase_frequency(tt, tc))
    IN  RoundQuot(Scale(avg_customer_value, avg_customer_lifespan))

calculate_kpis(frame) ==
    LET rows == frame.rows
        ts   == total_sales(rows)
        tt   == total_transactions(frame)
        tc   == total_customers(rows)
    IN  [ total_sales              |-> ts,
          total_transactions       |-> tt,
          avg_sale_per_transaction |-> avg_sale_per_transaction(ts, tt),
          avg_rating               |-> avg_rating(rows),
          total_customers          |-> tc,
          product_sales            |-> GroupBySum(rows, "Product line"),
          hour_sales               |-> GroupBySum(rows, "hour"),
          monthly_sales            |-> GroupBySum(rows, "month"),
          customer_type_sales      |-> GroupBySum(rows, "Customer_type"),
          gender_sales             |-> GroupBySum(rows, "Gender"),
          city_sales               |-> GroupBySum(rows, "City"),
          repeat_customer_rate     |-> repeat_customer_rate(repeat_customers(rows), tc),
          clv                      |-> clv(ts, tt, tc) ]

----------------------------------------------------------------------------
(* The script, lines 70-145 *)

Fresh == [ rendered |-> FALSE, user_set |-> FALSE, value |-> {} ]

NoWidgets == [ city |-> Fresh, customer_type |-> Fresh, gender |-> Fresh ]

\* the upper bound taken as exclusive
DateMask_ExclusiveEnd(rows, start_date, end_date) ==
    [ i \in 1..Len(rows) |-> DateLE(start_date, rows[i].date) /\ ~DateLE(end_date, rows[i].date) ]

DateMask(rows, start_date, end_date) ==
    [ i \in 1..Len(rows) |-> DateLE(start_date, rows[i].date) /\ DateLE(rows[i].date, end_date) ]

\* lines 75-79
DateFilter(frame, dr) ==
    IF dr = <<>>
    THEN [ exc |-> <<>>, frame |-> frame ]
    ELSE IF Len(dr) # 2
    THEN [ exc |-> << "ValueError", 76 >>, frame |-> Unbound ]
    ELSE IF "date" \notin frame.columns
    THEN [ exc |-> << "KeyError", 77 >>, frame |-> Unbound ]
    ELSE [ exc |-> <<>>,
           frame |-> [ frame EXCEPT !.rows = BoolIndex(@, DateMask(@, dr[1], dr[2])) ] ]

\* options=df[col].unique(); the column is present
MultiselectOptions(frame, col) == Unique(ColumnOf(frame.rows, col))

\* the test on df.empty inverted
MultiselectDefault_Inverted(frame, col) ==
    IF frame.rows # <<>> /\ frame.columns # {} THEN <<>> ELSE MultiselectOptions(frame, col)

\* default=df[col].unique() if not df.empty else []
MultiselectDefault(frame, col) ==
    IF frame.rows # <<>> /\ frame.columns # {} THEN MultiselectOptions(frame, col) ELSE <<>>

\* an empty selection falls back to the default
MultiselectValue_EmptyMeansAll(w, default) ==
    IF w.rendered /\ w.value # {} THEN w.value ELSE Range(default)

\* what st.sidebar.multiselect returns: the session's selection once the
\* widget has one, the default when the widget is rendered for the first time
MultiselectValue(w, default) == IF w.rendered THEN w.value ELSE Range(default)

\* session state of a widget after a run that rendered it
Rendered(w, default) ==
    IF w.rendered THEN w ELSE [ rendered |-> TRUE, user_set |-> FALSE, value |-> Range(default) ]

\* lines 97-101
SetMask(rows, cities, customer_types, genders) ==
    [ i \in 1..Len(rows) |->
        /\ rows[i].City \in cities
        /\ rows[i].Customer_type \in customer_types
        /\ rows[i].Gender \in genders ]

\* a run ended by an exception; widgets the run did not render lose their state
Aborted(exc, frame) ==
    [ exception            |-> exc,
      filtered_df          |-> frame,
      city_filter          |-> {},
      customer_type_filter |-> {},
      gender_filter        |-> {},
      filtered_kpi_data    |-> Unbound,
      widgets              |-> NoWidgets ]

\* one execution of the script on the loaded frame.  The frame load_data
\* returns has either every column or none, so the first column access of a
\* statement decides whether the statement raises KeyError.
Script(frame, dr, w) ==
    LET d == DateFilter(frame, dr)
    IN  IF d.exc # <<>> THEN Aborted(d.exc, Unbound)
        ELSE IF "City" \notin frame.columns THEN Aborted(<< "KeyError", 83 >>, d.frame)
        ELSE LET cd == MultiselectDefault(frame, "City")
                 td == MultiselectDefault(frame, "Customer_type")
                 gd == MultiselectDefault(frame, "Gender")
                 cf == MultiselectValue(w.city, cd)
                 tf == MultiselectValue(w.customer_type, td)
                 gf == MultiselectValue(w.gender, gd)
                 f  == [ d.frame EXCEPT !.rows = BoolIndex(@, SetMask(@, cf, tf, gf)) ]
             IN  [ exception            |-> <<>>,
                   filtered_df          |-> f,
                   city_filter          |-> cf,
                   customer_type_filter |-> tf,
                   gender_filter        |-> gf,
                   filtered_kpi_data    |-> calculate_kpis(f),
                   widgets              |-> [ city          |-> Rendered(w.city, cd),
                                              customer_type |-> Rendered(w.customer_type, td),
                                              gender        |-> Rendered(w.gender, gd) ] ]

\* @st.cache_data: load_data runs on a miss only
CachedLoad == IF cache = <<>> THEN load_data(source) ELSE cache[1]

\* a whole run of the script with the widgets holding dr and w
Execute(dr, w) ==
    \E loaded \in { CachedLoad } : \E run \in { Script(loaded.frame, dr, w) } :
        /\ cache' = << loaded >>
        /\ df' = loaded.frame
        /\ st_error' = loaded.error
        /\ date_range' = dr
        /\ widgets' = run.widgets
        /\ city_filter' = run.city_filter
        /\ customer_type_filter' = run.customer_type_filter
        /\ gender_filter' = run.gender_filter
        /\ filtered_df' = run.filtered_df
        /\ filtered_kpi_data' = run.filtered_kpi_data
        /\ exception' = run.exception
        /\ status' = IF run.exception = <<>> THEN "done" ELSE "raised"
        /\ UNCHANGED source

\* what date_input can return: nothing, a start date, or a start and an end
DateInputs ==
    { <<>> } \cup { << a >> : a \in Dates }
             \cup { p \in Dates \X Dates : DateLE(p[1], p[2]) }

Select(w, sel) == [ rendered |-> TRUE, user_set |-> TRUE, value |-> sel ]

----------------------------------------------------------------------------
(* Actions *)

Init ==
    /\ source \in Sources
    /\ cache = <<>>
    /\ df = Unbound
    /\ st_error = ""
    /\ date_range = <<>>
    /\ widgets = NoWidgets
    /\ city_filter = {}
    /\ customer_type_filter = {}
    /\ gender_filter = {}
    /\ filtered_df = Unbound
    /\ filtered_kpi_data = Unbound
    /\ status = "new"
    /\ exception = <<>>

\* the first run of a session
Run ==
    /\ status = "new"
    /\ Execute(date_range, widgets)

ChangeDateRange ==
    /\ status # "new"
    /\ \E dr \in DateInputs :
        /\ dr # date_range
        /\ Execute(dr, widgets)

ChangeCity ==
    /\ status = "done"
    /\ \E sel \in SUBSET Range(MultiselectOptions(df, "City")) :
        /\ sel # widgets.city.value
        /\ Execute(date_range, [ widgets EXCEPT !.city = Select(@, sel) ])

ChangeCustomerType ==
    /\ status = "done"
    /\ \E sel \in SUBSET Range(MultiselectOptions(df, "Customer_type")) :
        /\ sel # widgets.customer_type.value
        /\ Execute(date_range, [ widgets EXCEPT !.customer_type = Select(@, sel) ])

ChangeGender ==
    /\ status = "done"
    /\ \E sel \in SUBSET Range(MultiselectOptions(df, "Gender")) :
        /\ sel # widgets.gender.value
        /\ Execute(date_range, [ widgets EXCEPT !.gender = Select(@, sel) ])

\* the page is opened again: widget state is per session, the cache is not
NewSession ==
    /\ status # "new"
    /\ df' = Unbound
    /\ st_error' = ""
    /\ date_range' = <<>>
    /\ widgets' = NoWidgets
    /\ city_filter' = {}
    /\ customer_type_filter' = {}
    /\ gender_filter' = {}
    /\ filtered_df' = Unbound
    /\ filtered_kpi_data' = Unbound
    /\ status' = "new"
    /\ exception' = <<>>
    /\ UNCHANGED << source, cache >>

Next ==
    \/ Run
    \/ ChangeDateRange
    \/ ChangeCity
    \/ ChangeCustomerType
    \/ ChangeGender
    \/ NewSession

Spec == Init /\ [][Next]_vars

----------------------------------------------------------------------------
(* Properties *)

Ids(rows) == ColumnOf(rows, "Invoice ID")

Totals(rows) == ColumnOf(rows, "Total")

AbsDiff(a, b) == IF a >= b THEN a - b ELSE b - a

Completed == status = "done"

LoadFailed == status # "new" /\ st_error # ""

LoadSucceeded == status # "new" /\ st_error = ""

ZeroDefaults(k) ==
    /\ k.total_transactions = 0
    /\ k.avg_sale_per_transaction = 0
    /\ k.repeat_customer_rate = 0
    /\ k.clv = 0

GroupedMappings ==
    { << "product_sales", "Product line" >>, << "hour_sales", "hour" >>,
      << "monthly_sales", "month" >>, << "customer_type_sales", "Customer_type" >>,
      << "gender_sales", "Gender" >>, << "city_sales", "City" >> }

\* C1: after a load failure the load yields the empty dataset and the rest
\* of the run (filter options and defaults, filters, calculate_kpis)
\* completes without raising.
C1_FailedLoadStillCompletes ==
    LoadFailed => df = EmptyFrame /\ status = "done" /\ exception = <<>>

\* C2: for a zero-row collection that still has the schema's columns,
\* calculate_kpis returns a result with total_transactions,
\* avg_sale_per_transaction, repeat_customer_rate and clv all 0 and every
\* grouped mapping empty.
C2_ZeroRowsGiveZeroDefaults ==
    (Completed /\ filtered_df.rows = <<>> /\ filtered_df.columns # {}) =>
        /\ filtered_kpi_data # Unbound
        /\ ZeroDefaults(filtered_kpi_data)
        /\ \A g \in GroupedMappings : DOMAIN filtered_kpi_data[g[1]] = {}

C2_Witness ==
    /\ Completed
    /\ df.rows # <<>>
    /\ filtered_df.columns # {}
    /\ filtered_df.rows = <<>>

\* C3: the filtered collection is exactly the source's records that lie in
\* the date range (both ends inclusive; all records when no range is given)
\* and whose city, customer type and gender are in the selected sets, in
\* source order, none added or duplicated.
C3_FilterKeepsExactlyMatching ==
    Completed =>
        filtered_df.rows =
            SelectSeq(df.rows, LAMBDA r :
                /\ \/ date_range = <<>>
                   \/ DateLE(date_range[1], r.date) /\ DateLE(r.date, date_range[2])
                /\ r.City \in widgets.city.value
                /\ r.Customer_type \in widgets.customer_type.value
                /\ r.Gender \in widgets.gender.value)

C3_Witness ==
    /\ Completed
    /\ Len(date_range) = 2
    /\ date_range[1] # date_range[2]
    /\ \E i \in 1..Len(filtered_df.rows) : filtered_df.rows[i].date = date_range[2]
    /\ \E i \in 1..Len(df.rows) : ~DateLE(df.rows[i].date, date_range[2])
    /\ \E i \in 1..Len(df.rows) :
           /\ DateLE(date_range[1], df.rows[i].date) /\ DateLE(df.rows[i].date, date_range[2])
           /\ df.rows[i].City \notin widgets.city.value

EmptiedByUser(w) == w.user_set /\ w.value = {}

\* C4: an explicitly selected empty set in any one set filter is honoured:
\* the filtered collection is empty whatever the other filters are, and
\* total_transactions and the dependent metrics are 0.
C4_EmptySelectionHonoured ==
    (Completed /\ ( \/ EmptiedByUser(widgets.city)
                    \/ EmptiedByUser(widgets.customer_type)
                    \/ EmptiedByUser(widgets.gender) )) =>
        /\ filtered_df.rows = <<>>
        /\ ZeroDefaults(filtered_kpi_data)

C4_Witness ==
    /\ Completed
    /\ df.rows # <<>>
    /\ date_range = <<>>
    /\ EmptiedByUser(widgets.city)
    /\ widgets.customer_type.value # {}
    /\ widgets.gender.value # {}
    /\ filtered_df.rows = <<>>

DistinctValues(rows, col) == { rows[i][col] : i \in 1..Len(rows) }

AllSelected ==
    /\ widgets.city.value = DistinctValues(df.rows, "City")
    /\ widgets.customer_type.value = DistinctValues(df.rows, "Customer_type")
    /\ widgets.gender.value = DistinctValues(df.rows, "Gender")

Untouched ==
    /\ ~widgets.city.user_set
    /\ ~widgets.customer_type.user_set
    /\ ~widgets.gender.user_set

\* C5: with no date range and every set filter at its default, the default
\* is the full set of distinct values of the loaded dataset, every record is
\* kept and the KPIs equal those of the unfiltered dataset.
C5_DefaultsReproduceUnfiltered ==
    (Completed /\ date_range = <<>>) =>
        /\ Untouched => AllSelected
        /\ AllSelected => /\ filtered_df.rows = df.rows
                          /\ filtered_kpi_data = calculate_kpis(df)

C5_Witness ==
    /\ Completed
    /\ date_range = <<>>
    /\ Untouched
    /\ Cardinality(DistinctValues(df.rows, "City")) = 2
    /\ Cardinality(DistinctValues(df.rows, "Gender")) = 2
    /\ Len(filtered_df.rows) = Len(df.rows)

\* sum of the values of a mapping, in cents
RECURSIVE SumValues(_, _)
SumValues(m, keys) ==
    IF keys = {} THEN 0
    ELSE LET k == CHOOSE x \in keys : TRUE
         IN  m[k] + SumValues(m, keys \ { k })

\* exact sum of Total, in mills, over the rows whose column col holds k
ExactGroupTotal(rows, col, k) ==
    SumOf([ i \in 1..Len(rows) |-> IF rows[i][col] = k THEN rows[i].Total ELSE 0 ])

\* C6: for a non-empty collection and each of the six grouped mappings, the
\* keys are exactly the distinct values present, each value is the sum of
\* Total over the records bearing the key (to the cent), and the values add
\* up to total_sales within rounding tolerance (half a cent for each rounded
\* term).
C6_GroupedSalesPartitionTotal ==
    (Completed /\ filtered_df.rows # <<>>) =>
        \A g \in GroupedMappings :
            LET m    == filtered_kpi_data[g[1]]
                rows == filtered_df.rows
            IN  /\ DOMAIN m = DistinctValues(rows, g[2])
                /\ \A k \in DOMAIN m : AbsDiff(10 * m[k], ExactGroupTotal(rows, g[2], k)) <= 5
                /\ AbsDiff(10 * SumValues(m, DOMAIN m), 10 * filtered_kpi_data.total_sales)
                       <= 5 * (Cardinality(DOMAIN m) + 1)

C6_Witness ==
    /\ Completed
    /\ filtered_df.rows # <<>>
    /\ DOMAIN filtered_kpi_data.monthly_sales # DistinctValues(df.rows, "month")
    /\ Cardinality(DOMAIN filtered_kpi_data.product_sales) >= 2
    /\ SumValues(filtered_kpi_data.product_sales, DOMAIN filtered_kpi_data.product_sales)
           # filtered_kpi_data.total_sales

\* number of positions whose invoice id occurs at a strictly earlier position
EarlierOccurrences(ids) ==
    Cardinality({ i \in 1..Len(ids) : \E j \in 1..(i - 1) : ids[j] = ids[i] })

\* C7: repeat_customers counts the records whose invoice id occurred at a
\* strictly earlier position, total_customers counts the distinct invoice
\* ids, repeat_customer_rate is their ratio times 100 rounded to 2 decimals
\* (0 without customers); ids [I1, I2, I2] with totals 10, 20, 30 give
\* total_sales 60.00, 3 transactions, 2 customers, 1 repeat, rate 50.00.
C7_RepeatCustomerRate ==
    Completed =>
        LET rows == filtered_df.rows
            k    == filtered_kpi_data
            rc   == EarlierOccurrences(Ids(rows))
            tc   == Cardinality(Range(Ids(rows)))
        IN  /\ repeat_customers(rows) = rc
            /\ k.total_customers = tc
            /\ k.repeat_customer_rate = IF tc = 0 THEN 0 ELSE RoundHalfEven(rc * 100 * 100, tc)
            /\ (Ids(rows) = << "I1", "I2", "I2" >> /\ Totals(rows) = << 10000, 20000, 30000 >>) =>
                   /\ k.total_sales = 6000
                   /\ k.total_transactions = 3
                   /\ k.total_customers = 2
                   /\ repeat_customers(rows) = 1
                   /\ k.repeat_customer_rate = 5000

C7_Witness ==
    /\ Completed
    /\ Ids(filtered_df.rows) = << "I1", "I2", "I2" >>
    /\ Totals(filtered_df.rows) = << 10000, 20000, 30000 >>

\* C8: clv is (total_sales / total_customers) * (total_transactions /
\* total_customers) * 5 rounded to 2 decimals, total_sales being the rounded
\* sum of Total, total_transactions the row count and total_customers the
\* number of distinct invoice ids; without customers both factors and clv
\* are 0.
C8_CustomerLifetimeValue ==
    Completed =>
        LET rows == filtered_df.rows
            k    == filtered_kpi_data
            ts   == RoundHalfEven(SumOf(Totals(rows)), 10)
            tt   == Len(rows)
            tc   == Cardinality(Range(Ids(rows)))
        IN  /\ k.total_sales = ts
            /\ k.total_transactions = tt
            /\ k.total_customers = tc
            /\ tc > 0 => k.clv = RoundHalfEven(ts * tt * 5, tc * tc)
            /\ tc = 0 => /\ avg_purchase_value(ts, tc)[1] = 0
                         /\ purchase_frequency(tt, tc)[1] = 0
                         /\ k.clv = 0

C8_Witness ==
    /\ Completed
    /\ filtered_kpi_data.total_customers >= 2
    /\ filtered_kpi_data.total_transactions > filtered_kpi_data.total_customers
    /\ SumOf(Totals(filtered_df.rows)) % 10 # 0
    /\ (filtered_kpi_data.total_sales * filtered_kpi_data.total_transactions * 5)
           % (filtered_kpi_data.total_customers * filtered_kpi_data.total_customers) # 0

\* C9: in any order of the records, contiguous or interleaved,
\* repeat_customers = total_transactions - total_customers; ids
\* [A, A, B, C, C, C] give 3 customers and 3 repeats.
C9_DuplicationCountIdentity ==
    Completed =>
        LET rows == filtered_df.rows
            k    == filtered_kpi_data
        IN  /\ repeat_customers(rows) = k.total_transactions - k.total_customers
            /\ Ids(rows) = << "A", "A", "B", "C", "C", "C" >> =>
                   /\ k.total_customers = 3
                   /\ repeat_customers(rows) = 3

\* an invoice id whose occurrences are separated by another id
C9_Witness ==
    /\ Completed
    /\ \E i, j, l \in 1..Len(filtered_df.rows) :
           /\ i < j /\ j < l
           /\ Ids(filtered_df.rows)[i] = Ids(filtered_df.rows)[l]
           /\ Ids(filtered_df.rows)[i] # Ids(filtered_df.rows)[j]
    /\ repeat_customers(filtered_df.rows) >= 1

\* the fixture of C9 is among the collections the aggregator receives
C9_FixtureReached ==
    /\ Completed
    /\ Ids(filtered_df.rows) = << "A", "A", "B", "C", "C", "C" >>

\* C10: on a successfully loaded dataset every filter change is followed by
\* a full pass (filter, then calculate_kpis) that runs to completion,
\* whatever the date-range input holds: nothing, both bounds, or one bound.
C10_EveryPassCompletes ==
    LoadSucceeded => status = "done" /\ exception = <<>> /\ filtered_kpi_data # Unbound

====
